---- MODULE Spec2Model ----
(***************************************************************************)
(* A model of grave: the gh-backed repository search (src/grave/api.py)    *)
(* and the SQLite repository store (src/grave/db.py).                      *)
(*                                                                         *)
(* Strings the code splits or scans (the query) are sequences of one-      *)
(* character strings; strings it only stores or compares are TLA+ strings. *)
(* Python's None is the value None; a dict is a function whose DOMAIN is   *)
(* its key set.                                                            *)
(***************************************************************************)
EXTENDS Integers, Sequences, FiniteSets, TLC

(***************************************************************************)
(* Bounds of the model.                                                    *)
(***************************************************************************)
\* The longest provider response (items of one gh call) the model draws.
MaxItems == 2
\* The number of save_scan calls explored.
MaxScans == 2
\* The last clock value explored (the clock starts at 0 and counts half seconds).
MaxTime == 1
\* The longest items list of one save_scan call.
MaxScanItems == 2
\* The number of repository ids handed out.
MaxRepoIds == 2

None == "None"

Min(a, b) == IF a <= b THEN a ELSE b
Max(a, b) == IF a >= b THEN a ELSE b

\* All sequences over S of length 0..n.
SeqsUpTo(S, n) == UNION {[1..k -> S] : k \in 0..n}

\* dict.get(key, default)
Get(d, key, default) == IF key \in DOMAIN d THEN d[key] ELSE default

(***************************************************************************)
(* Strings as character sequences.                                         *)
(***************************************************************************)
SP == " "
COLON == ":"

RECURSIVE Join(_)
\* " ".join(parts)
Join(parts) ==
    IF Len(parts) = 0 THEN <<>>
    ELSE IF Len(parts) = 1 THEN parts[1]
    ELSE parts[1] \o <<SP>> \o Join(Tail(parts))

RECURSIVE SplitFrom(_, _, _)
\* query.split(): the maximal runs of non-blank characters, in order.
\* cur is the run being read, acc the runs already closed.
SplitFrom(s, cur, acc) ==
    IF Len(s) = 0 THEN (IF Len(cur) = 0 THEN acc ELSE Append(acc, cur))
    ELSE IF Head(s) = SP
         THEN SplitFrom(Tail(s), <<>>, IF Len(cur) = 0 THEN acc ELSE Append(acc, cur))
         ELSE SplitFrom(Tail(s), Append(cur, Head(s)), acc)

Split(s) == SplitFrom(s, <<>>, <<>>)

\* ":" in part
HasColon(part) == \E i \in 1..Len(part) : part[i] = COLON

\* part.split(":", 1): the text before the first colon and the text after it.
FirstColon(part) == CHOOSE i \in 1..Len(part) :
                        /\ part[i] = COLON
                        /\ \A j \in 1..(i - 1) : part[j] # COLON
BeforeColon(part) == SubSeq(part, 1, FirstColon(part) - 1)
AfterColon(part) == SubSeq(part, FirstColon(part) + 1, Len(part))

QCreated == <<"c", "r", "e", "a", "t", "e", "d">>
QLanguage == <<"l", "a", "n", "g", "u", "a", "g", "e">>
QStars == <<"s", "t", "a", "r", "s">>
QPushed == <<"p", "u", "s", "h", "e", "d">>

\* A string is truthy in Python when it is neither None nor empty.
Truthy(s) == s # None /\ s # <<>>

\* The mutation of build_search_query that appends stars before language.
build_search_queryStarsFirst(kws, created_range, language, stars_range, pushed) ==
    LET parts0 == IF kws # None /\ Len(kws) > 0 THEN kws ELSE <<>>
        parts1 == IF Truthy(created_range)
                  THEN Append(parts0, QCreated \o <<COLON>> \o created_range) ELSE parts0
        parts2 == IF Truthy(stars_range)
                  THEN Append(parts1, QStars \o <<COLON>> \o stars_range) ELSE parts1
        parts3 == IF Truthy(language)
                  THEN Append(parts2, QLanguage \o <<COLON>> \o language) ELSE parts2
        parts4 == IF Truthy(pushed)
                  THEN Append(parts3, QPushed \o <<COLON>> \o pushed) ELSE parts3
    IN Join(parts4)
\* build_search_query: keywords first, then the qualifiers present, joined by blanks.
build_search_query(kws, created_range, language, stars_range, pushed) ==
    LET parts0 == IF kws # None /\ Len(kws) > 0 THEN kws ELSE <<>>
        parts1 == IF Truthy(created_range)
                  THEN Append(parts0, QCreated \o <<COLON>> \o created_range) ELSE parts0
        parts2 == IF Truthy(language)
                  THEN Append(parts1, QLanguage \o <<COLON>> \o language) ELSE parts1
        parts3 == IF Truthy(stars_range)
                  THEN Append(parts2, QStars \o <<COLON>> \o stars_range) ELSE parts2
        parts4 == IF Truthy(pushed)
                  THEN Append(parts3, QPushed \o <<COLON>> \o pushed) ELSE parts3
    IN Join(parts4)

\* The mutation of QualifierFlags that has no flag for stars.
QualifierFlagsWithoutStars(part) ==
    LET q == BeforeColon(part)
        v == AfterColon(part)
    IN IF q = QCreated THEN <<"--created", v>>
       ELSE IF q = QLanguage THEN <<"--language", v>>
       ELSE IF q = QPushed THEN <<"--updated", v>>
       ELSE <<>>
\* The gh flags one qualifier token adds to base_cmd (none for an unknown qualifier).
QualifierFlags(part) ==
    LET q == BeforeColon(part)
        v == AfterColon(part)
    IN IF q = QCreated THEN <<"--created", v>>
       ELSE IF q = QLanguage THEN <<"--language", v>>
       ELSE IF q = QStars THEN <<"--stars", v>>
       ELSE IF q = QPushed THEN <<"--updated", v>>
       ELSE <<>>

RECURSIVE ParseFlags(_)
\* base_cmd after the loop over the parts of the query.
ParseFlags(parts) ==
    IF Len(parts) = 0 THEN <<"gh", "search", "repos">>
    ELSE LET p == parts[Len(parts)]
             rest == ParseFlags(SubSeq(parts, 1, Len(parts) - 1))
         IN IF HasColon(p) THEN rest \o QualifierFlags(p) ELSE rest

RECURSIVE ParseKeywords(_)
\* keywords after the loop: the parts without a colon, in order.
ParseKeywords(parts) ==
    IF Len(parts) = 0 THEN <<>>
    ELSE LET p == parts[Len(parts)]
             rest == ParseKeywords(SubSeq(parts, 1, Len(parts) - 1))
         IN IF HasColon(p) THEN rest ELSE Append(rest, p)

\* The mutation of PerKwLimit without the floor of 5.
PerKwLimitNoFloor(lim, n) == lim \div n
\* per_kw_limit = max(limit // len(keywords), 5); // rounds towards minus infinity.
PerKwLimit(lim, n) == Max(lim \div n, 5)

(***************************************************************************)
(* State.                                                                  *)
(***************************************************************************)
VARIABLES
    \* search_repos (api.py): one invocation
    pc,            \* "idle", "multi", "single", "done"
    query,         \* the query string passed in
    limit,         \* the limit passed in
    sort,          \* the sort passed in, or None
    gh_present,    \* whether the gh executable can be started
    base_cmd,      \* the gh command with the qualifier flags
    keywords,      \* the bare keywords of the query
    per_kw_limit,  \* the limit of each per-keyword call
    seen,          \* _multi_keyword_search: full names already merged
    merged,        \* _multi_keyword_search: the merged items
    calls,         \* the gh commands run so far, in order
    responses,     \* what each of them returned, in order
    result,        \* what search_repos returned or raised
    \* the SQLite database (db.py)
    scans,         \* table scans
    repos,         \* table repos
    scan_repos,    \* table scan_repos
    tags,          \* table tags
    seq_scans,     \* AUTOINCREMENT counter of scans
    seq_repos,     \* AUTOINCREMENT counter of repos
    now,           \* the clock read by datetime.now(UTC)
    ret,           \* the last store operation and what it returned
    \* one run of a command (cli.py)
    args,          \* the parsed command line
    output,        \* what the command has printed, in order
    exit_code,     \* <<>> while the command runs, then <<its exit status>>
    \* build_search_query (api.py)
    built          \* the last call: its arguments and the string returned

searchVars == <<pc, query, limit, sort, gh_present, base_cmd, keywords,
                per_kw_limit, seen, merged, calls, responses, result>>
storeVars == <<scans, repos, scan_repos, tags, seq_scans, seq_repos, now, ret>>
cmdVars == <<args, output, exit_code, built>>
vars == <<pc, query, limit, sort, gh_present, base_cmd, keywords,
          per_kw_limit, seen, merged, calls, responses, result,
          scans, repos, scan_repos, tags, seq_scans, seq_repos, now, ret,
          args, output, exit_code, built>>

(***************************************************************************)
(* The provider: what one `gh search repos ... --json` call can return.    *)
(***************************************************************************)
Names == {"o/a", "o/b", "o/c"}
Stars == {1, 2}

JSON_FIELDS == "fullName,description,stargazersCount,forksCount,watchersCount,openIssuesCount,language,createdAt,pushedAt,updatedAt,url"

\* One item of gh's JSON output, with every requested field.
RawItem(n, s) ==
    [fullName |-> n, description |-> "desc", stargazersCount |-> s,
     forksCount |-> 0, watchersCount |-> s, openIssuesCount |-> 0,
     language |-> "Go", createdAt |-> "2009", pushedAt |-> "2010",
     updatedAt |-> "2011", url |-> "https://github.com/x"]

RawItems == {RawItem(n, s) : n \in Names, s \in Stars}

\* What gh prints to stderr when it exits non-zero, as the set of the phrases
\* the code looks for that the text contains.
StderrTexts == {{}, {"not found"}, {"authentication"}, {"rate limit"}}

\* A gh call exits non-zero, prints something json.loads rejects, or prints a list.
Outcomes ==
    {[kind |-> "exit", stderr |-> e] : e \in StderrTexts}
        \cup {[kind |-> "badjson"]}
        \cup {[kind |-> "ok", items |-> its] : its \in SeqsUpTo(RawItems, MaxItems)}

\* _normalize_item
_normalize_item(item) ==
    [full_name |-> Get(item, "fullName", ""),
     description |-> Get(item, "description", ""),
     stargazers_count |-> Get(item, "stargazersCount", 0),
     forks_count |-> Get(item, "forksCount", 0),
     watchers_count |-> Get(item, "watchersCount", 0),
     open_issues_count |-> Get(item, "openIssuesCount", 0),
     language |-> Get(item, "language", ""),
     created_at |-> Get(item, "createdAt", ""),
     pushed_at |-> Get(item, "pushedAt", ""),
     updated_at |-> Get(item, "updatedAt", ""),
     topics |-> <<>>,
     html_url |-> Get(item, "url", "")]

(***************************************************************************)
(* _multi_keyword_search                                                   *)
(***************************************************************************)
RECURSIVE MergeLast(_, _)
RECURSIVE MergeItems(_, _)
\* The mutation of MergeItems that lets a later duplicate replace the kept item.
MergeLast(items, acc) ==
    IF Len(items) = 0 THEN acc
    ELSE LET item == Head(items)
             name == Get(item, "fullName", "")
             next == IF name \notin acc.seen
                     THEN [seen |-> acc.seen \cup {name},
                           merged |-> Append(acc.merged, _normalize_item(item))]
                     ELSE [seen |-> acc.seen,
                           merged |-> [i \in 1..Len(acc.merged) |->
                                         IF acc.merged[i].full_name = name
                                         THEN _normalize_item(item)
                                         ELSE acc.merged[i]]]
         IN MergeLast(Tail(items), next)
\* The loop over the items of one response: an item whose fullName was not seen
\* is normalized and appended; acc is [seen, merged].
MergeItems(items, acc) ==
    IF Len(items) = 0 THEN acc
    ELSE LET item == Head(items)
             name == Get(item, "fullName", "")
             next == IF name \notin acc.seen
                     THEN [seen |-> acc.seen \cup {name},
                           merged |-> Append(acc.merged, _normalize_item(item))]
                     ELSE acc
         IN MergeItems(Tail(items), next)

\* The mutation of SkipOrMerge in which a failed call discards what was merged.
ResetOnFailure(out, acc) ==
    IF out.kind = "exit" THEN [seen |-> {}, merged |-> <<>>]
    ELSE IF out.kind = "badjson" THEN [seen |-> {}, merged |-> <<>>]
    ELSE MergeItems(out.items, acc)
\* The body of the keyword loop after gh has run: a non-zero exit and output
\* that json.loads rejects both `continue`; a list is merged.
SkipOrMerge(out, acc) ==
    IF out.kind = "exit" THEN acc
    ELSE IF out.kind = "badjson" THEN acc
    ELSE MergeItems(out.items, acc)

RECURSIVE InsertDesc(_, _)
\* x placed after every element with at least as many stars (a stable insertion).
InsertDesc(sorted, x) ==
    IF Len(sorted) = 0 THEN <<x>>
    ELSE IF Head(sorted).stargazers_count >= x.stargazers_count
         THEN <<Head(sorted)>> \o InsertDesc(Tail(sorted), x)
         ELSE <<x>> \o sorted

RECURSIVE SortByStarsDesc(_)
\* list.sort(key=stars, reverse=True): stable, most stars first.
SortByStarsDesc(items) ==
    IF Len(items) = 0 THEN <<>>
    ELSE InsertDesc(SortByStarsDesc(SubSeq(items, 1, Len(items) - 1)), items[Len(items)])

\* The mutation of Slice that cuts nothing.
SliceAll(items, n) == items
\* items[:n] of Python: a negative n counts from the end.
Slice(items, n) ==
    IF n >= 0 THEN SubSeq(items, 1, Min(n, Len(items)))
    ELSE SubSeq(items, 1, Max(Len(items) + n, 0))

\* The command of one per-keyword call.
KeywordCmd(base, keyword, srt, lim) ==
    [base |-> base, keyword |-> keyword,
     sort |-> IF srt # None THEN <<"--sort", srt, "--order", "desc">> ELSE <<>>,
     limit |-> lim, json |-> JSON_FIELDS]

(***************************************************************************)
(* search_repos: the inputs explored.                                      *)
(***************************************************************************)
\* Keyword lists the callers pass: the prefixes of KeywordPool.
KeywordPool == <<<<"a">>, <<"b">>>>
KeywordLists == {SubSeq(KeywordPool, 1, k) : k \in 0..Len(KeywordPool)}
Languages == {None, <<"G", "o">>}
TotalLimits == {-1, 0, 2, 13}
Sorts == {None, "stars"}

Queries == {build_search_query(kws, None, lang, None, None) :
                kws \in KeywordLists, lang \in Languages}

NoResult == [kind |-> "none"]
Items(its) == [kind |-> "items", items |-> its]
RuntimeError(msg) == [kind |-> "error", error |-> msg]

StoreInit ==
    /\ scans = <<>>
    /\ repos = <<>>
    /\ scan_repos = <<>>
    /\ tags = <<>>
    /\ seq_scans = 0
    /\ seq_repos = 0
    /\ now = 0
    /\ ret = [op |-> "none"]

SearchInit ==
    /\ pc = "idle"
    /\ query = <<>>
    /\ limit = 0
    /\ sort = None
    /\ gh_present = TRUE
    /\ base_cmd = <<>>
    /\ keywords = <<>>
    /\ per_kw_limit = 0
    /\ seen = {}
    /\ merged = <<>>
    /\ calls = <<>>
    /\ responses = <<>>
    /\ result = NoResult

NoArgs == [command |-> "none"]
NoCall == [op |-> "none"]

CmdInit ==
    /\ args = NoArgs
    /\ output = <<>>
    /\ exit_code = <<>>
    /\ built = NoCall

Init == SearchInit /\ StoreInit /\ CmdInit

\* search_repos up to the choice of the mode: the query is split into qualifier
\* flags and keywords; more than one keyword selects the per-keyword search.
EnterSearch(q, lim, srt, gh) ==
    /\ query' = q
    /\ limit' = lim
    /\ sort' = srt
    /\ gh_present' = gh
    /\ base_cmd' = ParseFlags(Split(q))
    /\ keywords' = ParseKeywords(Split(q))
    /\ IF Len(ParseKeywords(Split(q))) > 1
       THEN /\ per_kw_limit' = PerKwLimit(lim, Len(ParseKeywords(Split(q))))
            /\ pc' = "multi"
       ELSE /\ per_kw_limit' = 0
            /\ pc' = "single"

\* A call of search_repos.
\* A query of two keywords with all four qualifiers.
QualifiedQueries ==
    {build_search_query(KeywordPool, <<"2", "0", "0", "8">>, <<"G", "o">>,
                        <<">", "1">>, <<"<", "2", "0", "1", "5">>)}

StartSearch ==
    /\ pc = "idle"
    /\ \E q \in Queries \cup QualifiedQueries, lim \in TotalLimits, srt \in Sorts, gh \in BOOLEAN :
          EnterSearch(q, lim, srt, gh)
    /\ UNCHANGED <<seen, merged, calls, responses, result>>
    /\ UNCHANGED storeVars
    /\ UNCHANGED cmdVars

\* The mutation of KeywordCall that issues a failed call a second time.
KeywordCallRetrying ==
    /\ pc = "multi"
    /\ Len(calls) < Len(keywords)
    /\ gh_present
    /\ LET cmd == KeywordCmd(base_cmd, keywords[Len(calls) + 1], sort, per_kw_limit)
       IN \E out \in Outcomes :
             /\ calls' = IF out.kind = "ok" THEN Append(calls, cmd) ELSE calls \o <<cmd, cmd>>
             /\ responses' = IF out.kind = "ok" THEN Append(responses, out)
                             ELSE responses \o <<out, out>>
             /\ LET acc == SkipOrMerge(out, [seen |-> seen, merged |-> merged])
                IN /\ seen' = acc.seen
                   /\ merged' = acc.merged
    /\ UNCHANGED <<pc, result>>
    /\ UNCHANGED <<query, limit, sort, gh_present, base_cmd, keywords, per_kw_limit>>
    /\ UNCHANGED storeVars
    /\ UNCHANGED cmdVars
\* One turn of the loop of _multi_keyword_search: gh is run for the next keyword;
\* a non-zero exit or unparsable output skips the keyword, a list is merged.
\* Without the gh executable subprocess.run raises FileNotFoundError, which
\* search_repos turns into RuntimeError.
KeywordCall ==
    /\ pc = "multi"
    /\ Len(calls) < Len(keywords)
    /\ LET keyword == keywords[Len(calls) + 1]
           cmd == KeywordCmd(base_cmd, keyword, sort, per_kw_limit)
       IN IF ~gh_present
          THEN /\ result' = RuntimeError("gh CLI not installed")
               /\ pc' = "done"
               /\ UNCHANGED <<seen, merged, calls, responses>>
          ELSE \E out \in Outcomes :
                  /\ calls' = Append(calls, cmd)
                  /\ responses' = Append(responses, out)
                  /\ LET acc == SkipOrMerge(out, [seen |-> seen, merged |-> merged])
                     IN /\ seen' = acc.seen
                        /\ merged' = acc.merged
                  /\ UNCHANGED <<pc, result>>
    /\ UNCHANGED <<query, limit, sort, gh_present, base_cmd, keywords, per_kw_limit>>
    /\ UNCHANGED storeVars
    /\ UNCHANGED cmdVars

\* The end of _multi_keyword_search: sort by stars, cut to total_limit, return.
MultiReturn ==
    /\ pc = "multi"
    /\ Len(calls) = Len(keywords)
    /\ merged' = SortByStarsDesc(merged)
    /\ result' = Items(Slice(merged', limit))
    /\ pc' = "done"
    /\ UNCHANGED <<query, limit, sort, gh_present, base_cmd, keywords, per_kw_limit,
                   seen, calls, responses>>
    /\ UNCHANGED storeVars
    /\ UNCHANGED cmdVars

\* The command of the single call.
SingleCmd(base, kws, srt, lim) ==
    [base |-> base, keyword |-> IF Len(kws) > 0 THEN kws[1] ELSE None,
     sort |-> IF srt # None THEN <<"--sort", srt, "--order", "desc">> ELSE <<>>,
     limit |-> lim, json |-> JSON_FIELDS]

RECURSIVE NormalizeFirstOfName(_)
RECURSIVE NormalizeAll(_)
\* The mutation of NormalizeAll that drops an item whose name came before.
NormalizeFirstOfName(items) ==
    IF Len(items) = 0 THEN <<>>
    ELSE LET front == SubSeq(items, 1, Len(items) - 1)
             last == items[Len(items)]
         IN IF \E i \in 1..Len(front) : front[i].fullName = last.fullName
            THEN NormalizeFirstOfName(front)
            ELSE Append(NormalizeFirstOfName(front), _normalize_item(last))
\* [_normalize_item(item) for item in items]
NormalizeAll(items) ==
    IF Len(items) = 0 THEN <<>>
    ELSE <<_normalize_item(Head(items))>> \o NormalizeAll(Tail(items))

\* The RuntimeError raised for a non-zero exit, chosen by what stderr contains.
ExitError(stderr) ==
    IF "gh: command not found" \in stderr \/ "not found" \in stderr
    THEN RuntimeError("gh CLI not installed")
    ELSE IF "authentication" \in stderr \/ "401" \in stderr
         THEN RuntimeError("GitHub authentication required")
    ELSE IF "rate limit" \in stderr \/ "403" \in stderr
         THEN RuntimeError("GitHub API rate limit exceeded")
    ELSE RuntimeError("gh CLI failed with exit code")

\* The mutation of SingleResult that takes unparsable output for an empty list.
SingleResultLenient(out) ==
    IF out.kind = "ok" THEN Items(NormalizeAll(out.items))
    ELSE IF out.kind = "exit" THEN ExitError(out.stderr)
    ELSE Items(<<>>)
\* What search_repos gives after the single call: the normalized items, or the
\* RuntimeError of a non-zero exit or of output json.loads rejects.
SingleResult(out) ==
    IF out.kind = "ok" THEN Items(NormalizeAll(out.items))
    ELSE IF out.kind = "exit" THEN ExitError(out.stderr)
    ELSE RuntimeError("Invalid JSON response from GitHub API")

\* search_repos with at most one keyword: one gh call; its failure is raised.
SingleCall ==
    /\ pc = "single"
    /\ IF ~gh_present
       THEN /\ result' = RuntimeError("gh CLI not installed")
            /\ UNCHANGED <<calls, responses>>
       ELSE \E out \in Outcomes :
               /\ calls' = Append(calls, SingleCmd(base_cmd, keywords, sort, limit))
               /\ responses' = Append(responses, out)
               /\ result' = SingleResult(out)
    /\ pc' = "done"
    /\ UNCHANGED <<query, limit, sort, gh_present, base_cmd, keywords, per_kw_limit,
                   seen, merged>>
    /\ UNCHANGED storeVars
    /\ UNCHANGED cmdVars

SearchNext == StartSearch \/ KeywordCall \/ MultiReturn \/ SingleCall

SearchSpec == Init /\ [][SearchNext]_vars

(***************************************************************************)
(* Properties of the multi-keyword search.                                 *)
(***************************************************************************)
MultiMode == Len(keywords) > 1
MultiDone == pc = "done" /\ MultiMode
OkCalls == {i \in 1..Len(responses) : responses[i].kind = "ok"}
HasName(i, n) == \E j \in 1..Len(responses[i].items) : responses[i].items[j].fullName = n

\* The names some successful response contains.
ReturnedNames == {n \in Names : \E i \in OkCalls : HasName(i, n)}

\* The first item named n of the earliest successful response that contains n.
FirstRaw(n) ==
    LET i == CHOOSE k \in OkCalls :
                 HasName(k, n) /\ \A m \in OkCalls : HasName(m, n) => k <= m
        its == responses[i].items
        j == CHOOSE k \in 1..Len(its) :
                 its[k].fullName = n /\ \A m \in 1..(k - 1) : its[m].fullName # n
    IN its[j]

\* The deduplicated set: one normalized record per returned name.
Deduped == {_normalize_item(FirstRaw(n)) : n \in ReturnedNames}

SeqElems(seq) == {seq[i] : i \in 1..Len(seq)}
NoRepeatedName(seq) ==
    \A i, j \in 1..Len(seq) : seq[i].full_name = seq[j].full_name => i = j

\* C1: in multi-keyword mode, when all N per-keyword calls were made and every
\* one failed (non-zero exit or unparsable output), search_repos raises an error
\* instead of returning a result list.
C1_AllCallsFailRaises ==
    (/\ MultiDone
     /\ Len(responses) = Len(keywords)
     /\ OkCalls = {})
        => result.kind = "error"

C3_FirstOccurrenceKept ==
    MultiMode =>
        /\ NoRepeatedName(merged)
        /\ \A x \in SeqElems(merged) :
               /\ x.full_name \in ReturnedNames
               /\ x = _normalize_item(FirstRaw(x.full_name))
        /\ result.kind = "items" =>
               /\ NoRepeatedName(result.items)
               /\ SeqElems(result.items) \subseteq Deduped

\* C3 witness: two successful calls returned the same name with different star
\* counts, and the output holds that name.
C3_Witness ==
    /\ MultiDone
    /\ result.kind = "items"
    /\ \E i, k \in OkCalls : \E n \in Names :
          /\ i < k
          /\ HasName(i, n)
          /\ \E j \in 1..Len(responses[k].items) :
                 /\ responses[k].items[j].fullName = n
                 /\ responses[k].items[j].stargazersCount # FirstRaw(n).stargazersCount
          /\ \E x \in SeqElems(result.items) : x.full_name = n

SortedByStarsDesc(seq) ==
    \A i, j \in 1..Len(seq) : i < j => seq[i].stargazers_count >= seq[j].stargazers_count

\* The output is the first total_limit records of a star-descending ordering
\* of the deduplicated set.
CappedRanking(out, lim) ==
    /\ Len(out) <= lim
    /\ SortedByStarsDesc(out)
    /\ NoRepeatedName(out)
    /\ SeqElems(out) \subseteq Deduped
    /\ Len(out) = Min(lim, Cardinality(Deduped))
    /\ \A d \in Deduped \ SeqElems(out) :
           \A x \in SeqElems(out) : d.stargazers_count <= x.stargazers_count

\* C4 as stated: for every total_limit the output of a multi-keyword search has
\* length <= total_limit, is sorted by stars descending and is the first
\* total_limit records of the star-descending ordering of the deduplicated set.
C4_CapForEveryLimit ==
    (MultiDone /\ result.kind = "items") => CappedRanking(result.items, limit)

\* C4 amended: the same for every total_limit >= 0.
C4_CapForNonNegativeLimit ==
    (MultiDone /\ result.kind = "items" /\ limit >= 0)
        => CappedRanking(result.items, limit)

\* C4 witness: the cap dropped a record of the deduplicated set.
C4_Witness ==
    /\ MultiDone
    /\ result.kind = "items"
    /\ limit = 2
    /\ Len(result.items) = 2
    /\ Cardinality(Deduped) > 2
    /\ \E d \in Deduped \ SeqElems(result.items) :
           d.stargazers_count < result.items[2].stargazers_count

\* C5: every per-keyword call carries the limit max(total_limit // N, 5), with
\* // the floor division, so never less than 5.
C5_PerKeywordLimit ==
    MultiMode =>
        \A i \in 1..Len(calls) :
            /\ calls[i].limit >= 5
            /\ \E q \in -5..20 :
                   /\ q * Len(keywords) <= limit
                   /\ limit < (q + 1) * Len(keywords)
                   /\ calls[i].limit = IF q > 5 THEN q ELSE 5

\* C5 witness: a call made with limit 5 although total_limit // N is below 5,
\* and one made with more than 5.
C5_Witness ==
    /\ MultiMode
    /\ Len(calls) > 0
    /\ limit = 2
    /\ calls[1].limit = 5

C5_WitnessAboveFloor ==
    /\ MultiMode
    /\ Len(calls) > 0
    /\ limit = 13
    /\ calls[1].limit = 6

\* C22: the calls of a multi-keyword search are issued one after the other in
\* the order of the keywords, each answered before the next is issued, one for
\* each keyword and no more; a call that failed is followed by the call for the
\* next keyword, not by itself.
C22_OneCallPerKeywordInOrder ==
    MultiMode =>
        /\ Len(calls) <= Len(keywords)
        /\ Len(responses) = Len(calls)
        /\ \A i \in 1..Len(calls) : calls[i].keyword = keywords[i]
        /\ (pc = "done" /\ gh_present) => Len(calls) = Len(keywords)

\* C22 witness: the call for the first keyword failed and the call for the
\* second, a different keyword, was issued after it and answered.
C22_Witness ==
    /\ MultiDone
    /\ Len(keywords) = 2
    /\ keywords[1] # keywords[2]
    /\ Len(calls) = 2
    /\ responses[1].kind = "exit"
    /\ responses[2].kind = "ok"
    /\ calls[2].keyword = keywords[2]

\* The text occurs in the query.
Occurs(text) ==
    \E i \in 1..Len(query) :
        i + Len(text) - 1 <= Len(query) /\ SubSeq(query, i, i + Len(text) - 1) = text

\* The flag and the value a token name:value of the query stands for.
FlagFor(name, value, flag) ==
    IF Occurs(name \o <<":">> \o value) THEN <<flag, value>> ELSE <<>>

\* The flags of the qualifier tokens the queries explored are made of.
QueryFlags ==
    FlagFor(<<"c", "r", "e", "a", "t", "e", "d">>, <<"2", "0", "0", "8">>, "--created")
        \o FlagFor(<<"l", "a", "n", "g", "u", "a", "g", "e">>, <<"G", "o">>, "--language")
        \o FlagFor(<<"s", "t", "a", "r", "s">>, <<">", "1">>, "--stars")
        \o FlagFor(<<"p", "u", "s", "h", "e", "d">>, <<"<", "2", "0", "1", "5">>, "--updated")

\* C23: each of the tokens created:, language:, stars:, pushed: of the query
\* stands for one flag (--created, --language, --stars, --updated) followed by
\* the token's value as written; every call of a multi-keyword search has all
\* these flags, the per-keyword limit max(limit // N, 5) and, when a sort was
\* asked for, --sort with it and --order desc.
C23_SharedFlagsOnEveryCall ==
    MultiMode =>
        \A i \in 1..Len(calls) :
            /\ calls[i].base = <<"gh", "search", "repos">> \o QueryFlags
            /\ calls[i].limit = (IF limit \div Len(keywords) > 5
                                 THEN limit \div Len(keywords) ELSE 5)
            /\ calls[i].sort = (IF sort = None THEN <<>>
                                ELSE <<"--sort", sort, "--order", "desc">>)

\* C23 witness: both calls of a search for two keywords with the four
\* qualifiers, sorted by stars, carry the four flags.
C23_Witness ==
    /\ MultiDone
    /\ Len(calls) = 2
    /\ sort = "stars"
    /\ limit = 13
    /\ \A i \in 1..2 :
          /\ calls[i].base = <<"gh", "search", "repos", "--created", <<"2", "0", "0", "8">>,
                               "--language", <<"G", "o">>, "--stars", <<">", "1">>,
                               "--updated", <<"<", "2", "0", "1", "5">>>>
          /\ calls[i].limit = 6
          /\ calls[i].sort = <<"--sort", "stars", "--order", "desc">>

(***************************************************************************)
(* Properties of the single call.                                          *)
(***************************************************************************)
SingleDone == pc = "done" /\ ~MultiMode

\* The query holds the token language:Go.
LanguageGo == <<"l", "a", "n", "g", "u", "a", "g", "e", ":", "G", "o">>
HasLanguageGo ==
    \E i \in 1..Len(query) :
        i + Len(LanguageGo) - 1 <= Len(query)
        /\ SubSeq(query, i, i + Len(LanguageGo) - 1) = LanguageGo

\* C16: with at most one keyword search_repos runs exactly one gh command,
\* with the flags of the qualifiers, the keyword if there is one and --limit
\* total_limit, and returns the items of the response, each normalized, in the
\* order and number the response has them.
C16_SingleCallVerbatim ==
    (SingleDone /\ gh_present) =>
        /\ Len(calls) = 1
        /\ calls[1].limit = limit
        /\ calls[1].base = <<"gh", "search", "repos">>
                              \o (IF HasLanguageGo THEN <<"--language", <<"G", "o">>>> ELSE <<>>)
        /\ calls[1].keyword = (IF Len(query) > 0 /\ query[1] = "a" THEN <<"a">> ELSE None)
        /\ responses[1].kind = "ok" =>
               /\ result.kind = "items"
               /\ Len(result.items) = Len(responses[1].items)
               /\ \A i \in 1..Len(result.items) :
                      result.items[i] = _normalize_item(responses[1].items[i])

\* C16 witness: a response that names one repository twice, the fewer stars
\* first, and is longer than the limit was returned as it came.
C16_Witness ==
    /\ SingleDone
    /\ Len(responses) = 1
    /\ responses[1].kind = "ok"
    /\ limit = 0
    /\ keywords = <<<<"a">>>>
    /\ result.kind = "items"
    /\ Len(result.items) = 2
    /\ result.items[1].full_name = result.items[2].full_name
    /\ result.items[1].stargazers_count < result.items[2].stargazers_count

\* C17: with at most one keyword every failure of the gh call (no executable, a
\* non-zero exit whatever stderr says, output that does not parse) makes
\* search_repos raise; it returns a list only for a response that parsed.
C17_SingleFailureRaises ==
    SingleDone =>
        /\ (~gh_present \/ responses[1].kind # "ok") => result.kind = "error"
        /\ result.kind = "items" => (gh_present /\ responses[1].kind = "ok")

\* C17 witness: output that does not parse made search_repos raise.
C17_Witness ==
    /\ SingleDone
    /\ Len(responses) = 1
    /\ responses[1].kind = "badjson"
    /\ result.kind = "error"
    /\ result.error = "Invalid JSON response from GitHub API"

(***************************************************************************)
(* The store (db.py).  A table is the sequence of its rows in rowid order; *)
(* the constraints of the schema are enforced by the statements below.     *)
(***************************************************************************)
\* datetime.now(UTC).isoformat(): the clock counts half seconds; isoformat
\* leaves the fraction out when it is zero.
Digit(d) == <<"0", "1", "2", "3", "4", "5", "6", "7", "8", "9">>[d + 1]
IsoFormat(t) ==
    <<"T", Digit((t \div 2) \div 10), Digit((t \div 2) % 10)>>
        \o (IF t % 2 = 1 THEN <<".", "5">> ELSE <<>>)
        \o <<"+", "0", "0", ":", "0", "0">>

\* The code point order of the characters of a timestamp.
CharRank(c) ==
    CASE c = "+" -> 43 [] c = "-" -> 45 [] c = "." -> 46
      [] c = "0" -> 48 [] c = "1" -> 49 [] c = "2" -> 50 [] c = "3" -> 51
      [] c = "4" -> 52 [] c = "5" -> 53 [] c = "6" -> 54 [] c = "7" -> 55
      [] c = "8" -> 56 [] c = "9" -> 57 [] c = ":" -> 58 [] c = "T" -> 84
      [] c = "Z" -> 90

RECURSIVE StrLE(_, _)
\* a <= b for two strings: the comparison of Python and of SQLite's BINARY collation.
StrLE(a, b) ==
    IF Len(a) = 0 THEN TRUE
    ELSE IF Len(b) = 0 THEN FALSE
    ELSE IF CharRank(Head(a)) < CharRank(Head(b)) THEN TRUE
    ELSE IF CharRank(Head(a)) > CharRank(Head(b)) THEN FALSE
    ELSE StrLE(Tail(a), Tail(b))

\* json.dumps of a list of strings: the text that json.loads reads back.
JsonDumps(v) == <<"json", v>>
JsonLoads(text) == text[2]

\* item.get(key): None when the key is absent.
ItemGet(item, key) == Get(item, key, None)

\* The database as one value.
Db == [scans |-> scans, repos |-> repos, scan_repos |-> scan_repos, tags |-> tags,
       seq_scans |-> seq_scans, seq_repos |-> seq_repos]

\* SELECT id, first_seen FROM repos WHERE full_name = ? -- fetchone(): the first
\* matching row as a one-element sequence, or the empty sequence for None.
SelectRepo(rs, full_name) ==
    IF \E i \in 1..Len(rs) : rs[i].full_name = full_name
    THEN <<rs[CHOOSE i \in 1..Len(rs) :
                  /\ rs[i].full_name = full_name
                  /\ \A j \in 1..(i - 1) : rs[j].full_name # full_name]>>
    ELSE <<>>

\* The mutation of UpdateRepo that writes the timestamp to first_seen.
UpdateRepoFirstSeen(rs, item, timestamp) ==
    [i \in 1..Len(rs) |->
        IF rs[i].full_name = item.full_name
        THEN [rs[i] EXCEPT !.description = ItemGet(item, "description"),
                           !.language = ItemGet(item, "language"),
                           !.stargazers_count = ItemGet(item, "stargazers_count"),
                           !.forks_count = ItemGet(item, "forks_count"),
                           !.watchers_count = ItemGet(item, "watchers_count"),
                           !.open_issues_count = ItemGet(item, "open_issues_count"),
                           !.created_at = ItemGet(item, "created_at"),
                           !.pushed_at = ItemGet(item, "pushed_at"),
                           !.updated_at = ItemGet(item, "updated_at"),
                           !.html_url = ItemGet(item, "html_url"),
                           !.topics = JsonDumps(Get(item, "topics", <<>>)),
                           !.first_seen = timestamp]
        ELSE rs[i]]
\* The mutation of UpdateRepo that leaves the language column out.
UpdateRepoStaleLanguage(rs, item, timestamp) ==
    [i \in 1..Len(rs) |->
        IF rs[i].full_name = item.full_name
        THEN [rs[i] EXCEPT !.description = ItemGet(item, "description"),
                           !.stargazers_count = ItemGet(item, "stargazers_count"),
                           !.forks_count = ItemGet(item, "forks_count"),
                           !.watchers_count = ItemGet(item, "watchers_count"),
                           !.open_issues_count = ItemGet(item, "open_issues_count"),
                           !.created_at = ItemGet(item, "created_at"),
                           !.pushed_at = ItemGet(item, "pushed_at"),
                           !.updated_at = ItemGet(item, "updated_at"),
                           !.html_url = ItemGet(item, "html_url"),
                           !.topics = JsonDumps(Get(item, "topics", <<>>)),
                           !.last_seen = timestamp]
        ELSE rs[i]]
\* UPDATE repos SET <every column but id, full_name, first_seen> WHERE full_name = ?
UpdateRepo(rs, item, timestamp) ==
    [i \in 1..Len(rs) |->
        IF rs[i].full_name = item.full_name
        THEN [rs[i] EXCEPT !.description = ItemGet(item, "description"),
                           !.language = ItemGet(item, "language"),
                           !.stargazers_count = ItemGet(item, "stargazers_count"),
                           !.forks_count = ItemGet(item, "forks_count"),
                           !.watchers_count = ItemGet(item, "watchers_count"),
                           !.open_issues_count = ItemGet(item, "open_issues_count"),
                           !.created_at = ItemGet(item, "created_at"),
                           !.pushed_at = ItemGet(item, "pushed_at"),
                           !.updated_at = ItemGet(item, "updated_at"),
                           !.html_url = ItemGet(item, "html_url"),
                           !.topics = JsonDumps(Get(item, "topics", <<>>)),
                           !.last_seen = timestamp]
        ELSE rs[i]]

\* The row INSERT INTO repos writes; AUTOINCREMENT gives an id never used before.
NewRepoRow(id, item, timestamp) ==
    [id |-> id,
     full_name |-> item.full_name,
     description |-> ItemGet(item, "description"),
     language |-> ItemGet(item, "language"),
     stargazers_count |-> ItemGet(item, "stargazers_count"),
     forks_count |-> ItemGet(item, "forks_count"),
     watchers_count |-> ItemGet(item, "watchers_count"),
     open_issues_count |-> ItemGet(item, "open_issues_count"),
     created_at |-> ItemGet(item, "created_at"),
     pushed_at |-> ItemGet(item, "pushed_at"),
     updated_at |-> ItemGet(item, "updated_at"),
     html_url |-> ItemGet(item, "html_url"),
     topics |-> JsonDumps(Get(item, "topics", <<>>)),
     first_seen |-> timestamp,
     last_seen |-> timestamp]

\* full_name TEXT UNIQUE NOT NULL
RepoConstraintFails(rs, row) ==
    \/ row.full_name = None
    \/ \E i \in 1..Len(rs) : rs[i].full_name = row.full_name

\* The mutation of UpsertRepo that always inserts a row, as on a table without a key.
UpsertRepoBlindInsert(db, item, timestamp) ==
    IF "full_name" \notin DOMAIN item
    THEN [db |-> db, repo_id |-> None, raised |-> "KeyError"]
    ELSE [db |-> [db EXCEPT !.repos = Append(db.repos,
                                             NewRepoRow(db.seq_repos + 1, item, timestamp)),
                            !.seq_repos = db.seq_repos + 1],
          repo_id |-> db.seq_repos + 1, raised |-> None]
\* INSERT INTO repos: the row gets the next id; a broken constraint raises.
InsertRepo(db, row) ==
    IF RepoConstraintFails(db.repos, row)
    THEN [db |-> db, repo_id |-> None, raised |-> "IntegrityError"]
    ELSE [db |-> [db EXCEPT !.repos = Append(db.repos, row),
                            !.seq_repos = db.seq_repos + 1],
          repo_id |-> row.id, raised |-> None]

\* The upsert of one item: look the full_name up, update the row found or insert
\* a new one.  Gives the database, the row's id and the exception raised, if any.
UpsertRepo(db, item, timestamp) ==
    IF "full_name" \notin DOMAIN item
    THEN [db |-> db, repo_id |-> None, raised |-> "KeyError"]
    ELSE IF \E i \in 1..Len(db.repos) : db.repos[i].full_name = item.full_name
         THEN [db |-> [db EXCEPT !.repos = UpdateRepo(db.repos, item, timestamp)],
               repo_id |-> SelectRepo(db.repos, item.full_name)[1].id, raised |-> None]
         ELSE InsertRepo(db, NewRepoRow(db.seq_repos + 1, item, timestamp))

\* The mutation of InsertOrIgnoreLink that inserts without looking at the key.
InsertLinkAlways(sr, scan_id, repo_id) ==
    Append(sr, [scan_id |-> scan_id, repo_id |-> repo_id])
\* INSERT OR IGNORE INTO scan_repos: PRIMARY KEY (scan_id, repo_id) makes a
\* second insert of a pair a no-op.
InsertOrIgnoreLink(sr, scan_id, repo_id) ==
    IF \E i \in 1..Len(sr) : sr[i].scan_id = scan_id /\ sr[i].repo_id = repo_id
    THEN sr
    ELSE Append(sr, [scan_id |-> scan_id, repo_id |-> repo_id])

\* The mutation of LinkAfterUpsert that writes no link.
LinkNothing(up, scan_id) == [db |-> up.db, raised |-> up.raised]
\* After the upsert `up` of one item: the link of the scan to the item's row.
LinkAfterUpsert(up, scan_id) ==
    IF up.raised # None
    THEN [db |-> up.db, raised |-> up.raised]
    ELSE [db |-> [up.db EXCEPT !.scan_repos =
                     InsertOrIgnoreLink(up.db.scan_repos, scan_id, up.repo_id)],
          raised |-> None]

RECURSIVE UpsertAll(_, _, _, _)
\* The loop of save_scan over items: upsert, then link; an exception ends it.
UpsertAll(acc, items, scan_id, timestamp) ==
    IF Len(items) = 0 \/ acc.raised # None THEN acc
    ELSE UpsertAll(LinkAfterUpsert(UpsertRepo(acc.db, Head(items), timestamp), scan_id),
                   Tail(items), scan_id, timestamp)

\* The mutation of NewScanRow that counts the distinct items instead of the items.
NewScanRowDistinct(id, q, preset_name, timestamp, items) ==
    [id |-> id, query |-> q, preset_name |-> preset_name,
     timestamp |-> timestamp, result_count |-> Cardinality({items[i] : i \in 1..Len(items)})]
\* The row INSERT INTO scans writes.
NewScanRow(id, q, preset_name, timestamp, items) ==
    [id |-> id, query |-> q, preset_name |-> preset_name,
     timestamp |-> timestamp, result_count |-> Len(items)]

\* The mutation of Outcome that keeps what was written before the exception.
OutcomeKeepingWrites(before, after, value) ==
    IF after.raised # None
    THEN [db |-> after.db, value |-> None, raised |-> after.raised]
    ELSE [db |-> after.db, value |-> value, raised |-> None]
\* What a store operation gives: the database it leaves (the one it found when
\* an exception left the transaction uncommitted), its value, its exception.
Outcome(before, after, value) ==
    IF after.raised # None
    THEN [db |-> before, value |-> None, raised |-> after.raised]
    ELSE [db |-> after.db, value |-> value, raised |-> None]

\* save_scan: the scan row, the upserts and links, one commit at the end.
save_scan(db, q, preset_name, items, timestamp) ==
    Outcome(db,
            UpsertAll([db |-> [db EXCEPT
                                 !.scans = Append(db.scans,
                                                  NewScanRow(db.seq_scans + 1, q, preset_name,
                                                             timestamp, items)),
                                 !.seq_scans = db.seq_scans + 1],
                       raised |-> None],
                      items, db.seq_scans + 1, timestamp),
            db.seq_scans + 1)

\* The value of save_repo: the id of the row.
RepoOutcome(before, up) == Outcome(before, up, up.repo_id)

\* The mutation of save_repo that records the repository as a scan of one item.
save_repoAsScan(db, repo_data, timestamp) ==
    RepoOutcome(db, LET r == save_scan(db, "", None, <<repo_data>>, timestamp)
                    IN [db |-> r.db, raised |-> r.raised,
                        repo_id |-> IF r.raised = None
                                    THEN SelectRepo(r.db.repos, repo_data.full_name)[1].id
                                    ELSE None])
\* save_repo: the same upsert for one repository, without a scan.
save_repo(db, repo_data, timestamp) ==
    RepoOutcome(db, UpsertRepo(db, repo_data, timestamp))

\* clear_all: DELETE FROM tags, scan_repos, scans, repos.
clear_all(db) ==
    [db EXCEPT !.tags = <<>>, !.scan_repos = <<>>, !.scans = <<>>, !.repos = <<>>]

\* The mutation of clear_scans that deletes the scans and leaves their links.
clear_scansKeepingLinks(db) ==
    [db EXCEPT !.scans = <<>>]
\* The mutation of clear_scans that deletes the repositories as well.
clear_scansAndRepos(db) ==
    [db EXCEPT !.scan_repos = <<>>, !.scans = <<>>, !.repos = <<>>]
\* clear_scans: DELETE FROM scan_repos, scans.
clear_scans(db) ==
    [db EXCEPT !.scan_repos = <<>>, !.scans = <<>>]

(***************************************************************************)
(* The store: the inputs explored and the operations.                      *)
(***************************************************************************)
\* Two observations of a repository that differ in every field but the name.
StoreItem(n, v) ==
    IF v = 1
    THEN [full_name |-> n, description |-> "first", language |-> "Go",
          stargazers_count |-> 5, forks_count |-> 1, watchers_count |-> 6,
          open_issues_count |-> 0, created_at |-> "2009-01-01T00:00:00Z",
          pushed_at |-> "2010-01-01T00:00:00Z", updated_at |-> "2011-01-01T00:00:00Z",
          html_url |-> "https://github.com/1", topics |-> <<>>]
    ELSE [full_name |-> n, description |-> "second", language |-> "Python",
          stargazers_count |-> 50, forks_count |-> 2, watchers_count |-> 51,
          open_issues_count |-> 3, created_at |-> "2009-02-02T00:00:00Z",
          pushed_at |-> "2010-02-02T00:00:00Z", updated_at |-> "2011-02-02T00:00:00Z",
          html_url |-> "https://github.com/2", topics |-> <<"cli">>]

\* A dict without the key full_name.
NamelessItem == [description |-> "first"]

StoreItems == {StoreItem("o/a", 1), StoreItem("o/a", 2), StoreItem("o/b", 1), NamelessItem}
ItemLists == SeqsUpTo(StoreItems, MaxScanItems)
StoreQueries == {"a b"}
PresetNames == {None, "ancient"}

\* The database after an operation, written to the variables.
Commit(db) ==
    /\ scans' = db.scans
    /\ repos' = db.repos
    /\ scan_repos' = db.scan_repos
    /\ tags' = db.tags
    /\ seq_scans' = db.seq_scans
    /\ seq_repos' = db.seq_repos

\* Time passes between two reads of the clock.
Tick ==
    /\ now < MaxTime
    /\ now' = now + 1
    /\ UNCHANGED <<scans, repos, scan_repos, tags, seq_scans, seq_repos, ret>>
    /\ UNCHANGED searchVars
    /\ UNCHANGED cmdVars

\* A save_scan call (cmd_scan and the other scanning commands): the arguments are
\* drawn from the sets given.
SaveScanFrom(qs, ps, lists) ==
    /\ seq_scans < MaxScans
    /\ \E q \in qs, p \in ps, its \in lists :
          \E r \in {save_scan(Db, q, p, its, IsoFormat(now))} :
             /\ r.db.seq_repos <= MaxRepoIds
             /\ Commit(r.db)
             /\ ret' = [op |-> "save_scan", query |-> q, preset_name |-> p,
                        items |-> its, timestamp |-> IsoFormat(now),
                        value |-> r.value, raised |-> r.raised]
    /\ UNCHANGED now
    /\ UNCHANGED searchVars
    /\ UNCHANGED cmdVars

SaveScan == SaveScanFrom(StoreQueries, PresetNames, ItemLists)

\* A save_repo call (cmd_dig): the repository is drawn from the set given.
SaveRepoFrom(items) ==
    /\ \E repo_data \in items :
          \E r \in {save_repo(Db, repo_data, IsoFormat(now))} :
             /\ r.db.seq_repos <= MaxRepoIds
             /\ Commit(r.db)
             /\ ret' = [op |-> "save_repo", items |-> <<repo_data>>,
                        timestamp |-> IsoFormat(now),
                        value |-> r.value, raised |-> r.raised]
    /\ UNCHANGED now
    /\ UNCHANGED searchVars
    /\ UNCHANGED cmdVars

SaveRepo == SaveRepoFrom(StoreItems)

ClearAll ==
    /\ Commit(clear_all(Db))
    /\ ret' = [op |-> "clear_all"]
    /\ UNCHANGED now
    /\ UNCHANGED searchVars
    /\ UNCHANGED cmdVars

ClearScans ==
    /\ Commit(clear_scans(Db))
    /\ ret' = [op |-> "clear_scans"]
    /\ UNCHANGED now
    /\ UNCHANGED searchVars
    /\ UNCHANGED cmdVars

StoreNext == Tick \/ SaveScan \/ SaveRepo \/ ClearAll \/ ClearScans

StoreSpec == Init /\ [][StoreNext]_vars

(***************************************************************************)
(* Properties of the store.                                                *)
(***************************************************************************)
RowsNamed(rs, n) == {i \in 1..Len(rs) : rs[i].full_name = n}
ItemNames(items) == {items[i].full_name : i \in {k \in 1..Len(items) : "full_name" \in DOMAIN items[k]}}
RepeatsName(items) ==
    /\ Len(items) = 2
    /\ "full_name" \in DOMAIN items[1]
    /\ "full_name" \in DOMAIN items[2]
    /\ items[1].full_name = items[2].full_name

\* A step of save_scan or save_repo that returned: the clock is not read twice.
SaveStep == now' = now /\ ret'.op \in {"save_scan", "save_repo"} /\ ret'.raised = None
ScanStep == now' = now /\ ret'.op = "save_scan" /\ ret'.raised = None

\* C6: after any sequence of save_scan, save_repo, clear_all and clear_scans
\* calls there is at most one row of repos per full_name.
C6_OneRowPerFullName ==
    \A i, j \in 1..Len(repos) : repos[i].full_name = repos[j].full_name => i = j

\* C6 witness: a save_scan whose items repeat a full_name has returned and a
\* row of that name is stored.
C6_Witness ==
    /\ ret.op = "save_scan"
    /\ ret.raised = None
    /\ RepeatsName(ret.items)
    /\ Cardinality(RowsNamed(repos, ret.items[1].full_name)) = 1

\* C7: every row of repos has first_seen <= last_seen, as the stored ISO-8601
\* strings compare.
C7_FirstSeenBeforeLastSeen ==
    \A i \in 1..Len(repos) : StrLE(repos[i].first_seen, repos[i].last_seen)

\* C7 witness: a row seen again at a later clock value.
C7_Witness ==
    \E i \in 1..Len(repos) :
        /\ repos[i].first_seen # repos[i].last_seen
        /\ StrLE(repos[i].first_seen, repos[i].last_seen)

\* The last item of the list that carries the name n.
LastItemNamed(items, n) ==
    items[CHOOSE i \in 1..Len(items) :
              /\ "full_name" \in DOMAIN items[i]
              /\ items[i].full_name = n
              /\ \A j \in (i + 1)..Len(items) :
                     "full_name" \in DOMAIN items[j] => items[j].full_name # n]

\* The row holds the fields of the item and was last seen at the timestamp.
RowReflects(row, item, timestamp) ==
    /\ row.full_name = item.full_name
    /\ row.description = item.description
    /\ row.language = item.language
    /\ row.stargazers_count = item.stargazers_count
    /\ row.forks_count = item.forks_count
    /\ row.watchers_count = item.watchers_count
    /\ row.open_issues_count = item.open_issues_count
    /\ row.created_at = item.created_at
    /\ row.pushed_at = item.pushed_at
    /\ row.updated_at = item.updated_at
    /\ row.html_url = item.html_url
    /\ JsonLoads(row.topics) = item.topics
    /\ row.last_seen = timestamp

\* C8: a save of a full_name already stored leaves first_seen (and the id) of
\* its row as they were and writes every other field, last_seen included, from
\* the call; a first save sets first_seen = last_seen = now; no step changes
\* the first_seen of a row that stays.
C8_UpsertKeepsFirstSeen ==
    [][/\ \A i \in 1..Len(repos) : \A k \in 1..Len(repos') :
              repos[i].full_name = repos'[k].full_name
                  => repos'[k].first_seen = repos[i].first_seen
       /\ SaveStep =>
              \A n \in ItemNames(ret'.items) :
                  /\ Cardinality(RowsNamed(repos', n)) = 1
                  /\ \A k \in RowsNamed(repos', n) :
                         /\ RowReflects(repos'[k], LastItemNamed(ret'.items, n), IsoFormat(now))
                         /\ RowsNamed(repos, n) = {} => repos'[k].first_seen = IsoFormat(now)
                         /\ \A i \in RowsNamed(repos, n) : repos'[k].id = repos[i].id
      ]_vars

\* C8 witness: a repository saved again, later and with other field values.
C8_Witness ==
    /\ ret.op \in {"save_scan", "save_repo"}
    /\ ret.raised = None
    /\ \E i \in 1..Len(repos) :
          /\ repos[i].full_name \in ItemNames(ret.items)
          /\ repos[i].last_seen = ret.timestamp
          /\ repos[i].first_seen # ret.timestamp
          /\ repos[i].description = "second"

\* C9: scan_repos holds no pair twice, and a save_scan whose items all carry a
\* full_name returns without an exception, also when a name is repeated.
C9_LinksAreASet ==
    /\ \A i, j \in 1..Len(scan_repos) :
           (scan_repos[i].scan_id = scan_repos[j].scan_id
            /\ scan_repos[i].repo_id = scan_repos[j].repo_id) => i = j
    /\ (ret.op = "save_scan"
        /\ \A k \in 1..Len(ret.items) : "full_name" \in DOMAIN ret.items[k])
           => ret.raised = None

\* C9 witness: a save_scan linked the same repository twice and one row holds
\* the pair.
C9_Witness ==
    /\ ret.op = "save_scan"
    /\ ret.raised = None
    /\ RepeatsName(ret.items)
    /\ Cardinality({i \in 1..Len(scan_repos) : scan_repos[i].scan_id = ret.value}) = 1

\* C10: a save_scan that returns appends exactly one row to scans, with the
\* query and preset_name given, timestamp = now and result_count = len(items);
\* the value returned is the id of that row and no row present before has it.
C10_OneScanRowPerCall ==
    [][ScanStep =>
           /\ scans' = Append(scans, [id |-> ret'.value,
                                      query |-> ret'.query,
                                      preset_name |-> ret'.preset_name,
                                      timestamp |-> IsoFormat(now),
                                      result_count |-> Len(ret'.items)])
           /\ \A i \in 1..Len(scans) : scans[i].id # ret'.value
      ]_vars

\* C10 witness: a save_scan with no items added a second row to scans.
C10_Witness ==
    /\ ret.op = "save_scan"
    /\ ret.raised = None
    /\ Len(ret.items) = 0
    /\ Len(scans) = 2
    /\ scans[2].id = ret.value
    /\ scans[2].result_count = 0

ClearScansStep == now' = now /\ ret'.op = "clear_scans"
ClearAllStep == now' = now /\ ret'.op = "clear_all"

\* C18: clear_scans leaves scans and scan_repos empty and every row of repos
\* and of tags as it was; clear_all leaves scans, repos, scan_repos and tags
\* empty.
C18_ClearEffects ==
    [][/\ ClearScansStep =>
              /\ scans' = <<>>
              /\ scan_repos' = <<>>
              /\ repos' = repos
              /\ tags' = tags
       /\ ClearAllStep =>
              /\ scans' = <<>>
              /\ repos' = <<>>
              /\ scan_repos' = <<>>
              /\ tags' = <<>>
      ]_vars

\* C18 witness: after scans were saved, clear_scans left a repository that was
\* seen twice, with both its timestamps, and no scan and no link.
C18_Witness ==
    /\ ret.op = "clear_scans"
    /\ seq_scans >= 1
    /\ scans = <<>>
    /\ scan_repos = <<>>
    /\ \E i \in 1..Len(repos) : repos[i].first_seen # repos[i].last_seen

RepoStep == now' = now /\ ret'.op = "save_repo"

\* C20: save_repo changes repos exactly as a save_scan of the one item would:
\* a new full_name gets a row with first_seen = last_seen = now, a known one
\* keeps id and first_seen and takes every other field from the item; the
\* value is the id of that row; scans and scan_repos stay as they were.
C20_SaveRepoIsBareUpsert ==
    [][RepoStep =>
           /\ scans' = scans
           /\ scan_repos' = scan_repos
           /\ repos' = save_scan(Db, "a b", None, ret'.items, ret'.timestamp).db.repos
           /\ ret'.raised = None =>
                  \E k \in 1..Len(repos') :
                      /\ repos'[k].id = ret'.value
                      /\ repos'[k].full_name = ret'.items[1].full_name
                      /\ RowsNamed(repos', ret'.items[1].full_name) = {k}
                      /\ RowReflects(repos'[k], ret'.items[1], IsoFormat(now))
                      /\ IF RowsNamed(repos, repos'[k].full_name) = {}
                         THEN /\ repos'[k].first_seen = IsoFormat(now)
                              /\ Len(repos') = Len(repos) + 1
                         ELSE /\ Len(repos') = Len(repos)
                              /\ \A i \in RowsNamed(repos, repos'[k].full_name) :
                                     /\ repos'[k].first_seen = repos[i].first_seen
                                     /\ repos'[k].id = repos[i].id
                      /\ \A i \in 1..Len(repos) :
                             repos[i].full_name # repos'[k].full_name => repos'[i] = repos[i]
      ]_vars

\* C20 witness: a repository saved by save_repo a second time, later than the
\* first, has no link although a scan is stored.
C20_Witness ==
    /\ ret.op = "save_repo"
    /\ ret.raised = None
    /\ Len(scans) >= 1
    /\ \E k \in 1..Len(repos) :
          /\ repos[k].id = ret.value
          /\ repos[k].first_seen # repos[k].last_seen
          /\ repos[k].description = "second"
          /\ \A l \in 1..Len(scan_repos) : scan_repos[l].repo_id # ret.value

FailedScanStep == now' = now /\ ret'.op = "save_scan" /\ ret'.raised # None

\* The items of a failed save_scan that come before the first one without a
\* full_name, the one the loop stopped at.
BeforeFailure(items) ==
    {j \in 1..Len(items) : \A i \in 1..j : "full_name" \in DOMAIN items[i]}

\* C21 as stated: when the k-th item of a save_scan fails, the scan row and the
\* rows of the items 1..k-1 are in the store.
C21_PartialScanKept ==
    [][FailedScanStep =>
           /\ Len(scans') = Len(scans) + 1
           /\ \A j \in BeforeFailure(ret'.items) :
                  \E k \in RowsNamed(repos', ret'.items[j].full_name) :
                      repos'[k].last_seen = ret'.timestamp
      ]_vars

\* C21, amended: save_scan commits once, after the loop; when the k-th item
\* fails, the store is as it was before the call: no scan row, no row or
\* change of a row for the items 1..k-1, no link.
C21_FailedScanLeavesNothing ==
    [][FailedScanStep =>
           /\ scans' = scans
           /\ repos' = repos
           /\ scan_repos' = scan_repos
           /\ tags' = tags
      ]_vars

\* C21 witness: a save_scan failed at its second item; the first item, which
\* names a repository not stored before, left no row, and there is no scan row.
C21_Witness ==
    /\ ret.op = "save_scan"
    /\ ret.raised = "KeyError"
    /\ Len(ret.items) = 2
    /\ BeforeFailure(ret.items) = {1}
    /\ RowsNamed(repos, ret.items[1].full_name) = {}
    /\ scans = <<>>
    /\ scan_repos = <<>>

\* C25: in every state every row of scan_repos names the id of a row of scans
\* and the id of a row of repos.
C25_LinksReferToRows ==
    \A l \in 1..Len(scan_repos) :
        /\ \E i \in 1..Len(scans) : scans[i].id = scan_repos[l].scan_id
        /\ \E k \in 1..Len(repos) : repos[k].id = scan_repos[l].repo_id

\* C25 witness: after a clear_scans a new scan was saved; its link names the
\* new scan and a repository stored before the clear.
C25_Witness ==
    /\ ret.op = "save_scan"
    /\ ret.raised = None
    /\ Len(scans) = 1
    /\ scans[1].id = 2
    /\ Len(scan_repos) >= 1
    /\ \E k \in 1..Len(repos) :
          /\ repos[k].id = scan_repos[1].repo_id
          /\ repos[k].first_seen # repos[k].last_seen

\* The rows of scan_repos of a scan.
LinksOf(sr, scan_id) == {l \in 1..Len(sr) : sr[l].scan_id = scan_id}

\* C27: a save_scan leaves as many rows of scan_repos for its scan as its items
\* have distinct full_names: at most result_count, and result_count exactly
\* when no full_name comes twice; in every state the links of a scan are at
\* most its result_count.
C27_LinksCountDistinctNames ==
    /\ [](\A i \in 1..Len(scans) :
              Cardinality(LinksOf(scan_repos, scans[i].id)) <= scans[i].result_count)
    /\ [][ScanStep =>
              LET links == Cardinality(LinksOf(scan_repos', ret'.value))
                  count == Len(ret'.items)
              IN /\ links = Cardinality(ItemNames(ret'.items))
                 /\ \E i \in 1..Len(scans') :
                        scans'[i].id = ret'.value /\ scans'[i].result_count = count
                 /\ links <= count
                 /\ links = count <=>
                        \A a, b \in 1..count :
                            ret'.items[a].full_name = ret'.items[b].full_name => a = b
         ]_vars

\* C27 witness: of two scans of two items each, the first, of two
\* repositories, has two links, the second, of one repository twice, has one.
C27_Witness ==
    /\ ret.op = "save_scan"
    /\ ret.raised = None
    /\ Len(scans) = 2
    /\ scans[1].result_count = 2
    /\ scans[2].result_count = 2
    /\ Cardinality(LinksOf(scan_repos, scans[1].id)) = 2
    /\ Cardinality(LinksOf(scan_repos, scans[2].id)) = 1
    /\ RepeatsName(ret.items)

(***************************************************************************)
(* Reading the store: list_repos, get_db_stats, vacuum_db.                 *)
(***************************************************************************)
\* A str the code tests with `if x:` is used when it is neither None nor "".
TruthyStr(s) == s # None /\ s # ""

IsDigit(c) == \E d \in 0..9 : Digit(d) = c
DigitVal(c) == CHOOSE d \in 0..9 : Digit(d) = c

RECURSIVE NatOf(_)
NatOf(s) ==
    IF Len(s) = 0 THEN 0
    ELSE NatOf(SubSeq(s, 1, Len(s) - 1)) * 10 + DigitVal(s[Len(s)])

\* int(s) accepts an optional sign followed by digits (blanks and underscores,
\* which it also accepts, are not drawn); anything else raises ValueError.
IsInt(s) ==
    LET body == IF Len(s) > 0 /\ s[1] \in {"-", "+"} THEN Tail(s) ELSE s
    IN Len(body) > 0 /\ \A i \in 1..Len(body) : IsDigit(body[i])
IntOf(s) ==
    IF s[1] = "-" THEN 0 - NatOf(Tail(s))
    ELSE IF s[1] = "+" THEN NatOf(Tail(s))
    ELSE NatOf(s)

\* stars.startswith(c)
StartsWith(s, c) == Len(s) > 0 /\ s[1] = c
\* ".." in stars
HasDots(s) == \E i \in 1..(Len(s) - 1) : s[i] = "." /\ s[i + 1] = "."

RECURSIVE SplitDotsFrom(_, _, _)
\* stars.split(".."): cur is the part being read, acc the parts already closed.
SplitDotsFrom(s, cur, acc) ==
    IF Len(s) = 0 THEN Append(acc, cur)
    ELSE IF Len(s) >= 2 /\ s[1] = "." /\ s[2] = "."
         THEN SplitDotsFrom(SubSeq(s, 3, Len(s)), <<>>, Append(acc, cur))
         ELSE SplitDotsFrom(Tail(s), Append(cur, Head(s)), acc)
SplitDots(s) == SplitDotsFrom(s, <<>>, <<>>)

NoClause == [raised |-> None, op |-> "none", lo |-> 0, hi |-> 0]
ValueError == [raised |-> "ValueError", op |-> "none", lo |-> 0, hi |-> 0]
Clause(op, lo, hi) == [raised |-> None, op |-> op, lo |-> lo, hi |-> hi]

\* The WHERE clause the stars filter adds, with its parameters; int() of a text
\* that is no integer raises ValueError.
StarsClause(stars) ==
    IF ~Truthy(stars) THEN NoClause
    ELSE IF StartsWith(stars, ">")
         THEN (IF IsInt(Tail(stars)) THEN Clause(">", IntOf(Tail(stars)), 0) ELSE ValueError)
    ELSE IF StartsWith(stars, "<")
         THEN (IF IsInt(Tail(stars)) THEN Clause("<", IntOf(Tail(stars)), 0) ELSE ValueError)
    ELSE IF HasDots(stars)
         THEN (IF IsInt(SplitDots(stars)[1]) /\ IsInt(SplitDots(stars)[2])
               THEN Clause("..", IntOf(SplitDots(stars)[1]), IntOf(SplitDots(stars)[2]))
               ELSE ValueError)
    ELSE (IF IsInt(stars) THEN Clause("=", IntOf(stars), 0) ELSE ValueError)

\* v IS NULL, for a column of any type.
IsNull(v) == ToString(v) = ToString(None)

\* The mutation of StarsHolds in which '>' also admits the bound itself.
StarsHoldsFromBound(c, v) ==
    \/ c.op = "none"
    \/ /\ ~IsNull(v)
       /\ CASE c.op = ">" -> v >= c.lo
            [] c.op = "<" -> v < c.lo
            [] c.op = ".." -> v >= c.lo /\ v <= c.hi
            [] c.op = "=" -> v = c.lo
\* The stars clause on a value of the column; a comparison with NULL is not true.
StarsHolds(c, v) ==
    \/ c.op = "none"
    \/ /\ ~IsNull(v)
       /\ CASE c.op = ">" -> v > c.lo
            [] c.op = "<" -> v < c.lo
            [] c.op = ".." -> v >= c.lo /\ v <= c.hi
            [] c.op = "=" -> v = c.lo

\* a >= b for two TEXT values.
StrGE(a, b) == StrLE(b, a)

\* The mutation of JoinMatches that joins the scans of every preset.
JoinAnyPreset(db, preset) ==
    {m \in (1..Len(db.repos)) \X (1..Len(db.scan_repos)) \X (1..Len(db.scans)) :
        /\ db.repos[m[1]].id = db.scan_repos[m[2]].repo_id
        /\ db.scan_repos[m[2]].scan_id = db.scans[m[3]].id}
\* repos INNER JOIN scan_repos INNER JOIN scans WHERE scans.preset_name = ?:
\* the (repo, link, scan) row triples of the join.
JoinMatches(db, preset) ==
    {m \in (1..Len(db.repos)) \X (1..Len(db.scan_repos)) \X (1..Len(db.scans)) :
        /\ db.repos[m[1]].id = db.scan_repos[m[2]].repo_id
        /\ db.scan_repos[m[2]].scan_id = db.scans[m[3]].id
        /\ db.scans[m[3]].preset_name = preset}

\* FROM repos, joined with the scans when a preset is given: the rows of repos
\* the FROM clause yields, one per match.
FromRows(db, preset) ==
    IF TruthyStr(preset) THEN {<<m[1], m[2], m[3]>> : m \in JoinMatches(db, preset)}
    ELSE {<<i, 0, 0>> : i \in 1..Len(db.repos)}

\* The language, stars and since clauses on one row of repos.
WhereHolds(row, language, clause, since) ==
    /\ TruthyStr(language) => (row.language # None /\ row.language = language)
    /\ StarsHolds(clause, row.stargazers_count)
    /\ Truthy(since) => StrGE(row.first_seen, since)

\* The mutation of SelectDistinct that yields a row for every match of the join.
SelectPerMatch(db, language, clause, preset, since) ==
    {[f \in DOMAIN db.repos[m[1]] \cup {"link"} |->
         IF f = "link" THEN m[2] ELSE db.repos[m[1]][f]] :
        m \in {x \in FromRows(db, preset) :
                  WhereHolds(db.repos[x[1]], language, clause, since)}}
\* SELECT DISTINCT repos.*: the set of the rows selected.
SelectDistinct(db, language, clause, preset, since) ==
    {db.repos[m[1]] : m \in {x \in FromRows(db, preset) :
                                WhereHolds(db.repos[x[1]], language, clause, since)}}

\* The mutation of OrderByFirstSeenDesc that orders by last_seen.
OrderByLastSeenDesc(rows) ==
    {o \in [1..Cardinality(rows) -> rows] :
        /\ \A i, j \in 1..Cardinality(rows) : o[i] = o[j] => i = j
        /\ \A i, j \in 1..Cardinality(rows) :
               i < j => StrGE(o[i].last_seen, o[j].last_seen)}
\* ORDER BY repos.first_seen DESC: every listing of the rows with first_seen
\* non-increasing; SQL leaves the order of rows with equal first_seen open.
OrderByFirstSeenDesc(rows) ==
    {o \in [1..Cardinality(rows) -> rows] :
        /\ \A i, j \in 1..Cardinality(rows) : o[i] = o[j] => i = j
        /\ \A i, j \in 1..Cardinality(rows) :
               i < j => StrGE(o[i].first_seen, o[j].first_seen)}

\* LIMIT ?: SQLite puts no upper bound on the rows when the limit is negative.
SqlLimit(rows, lim) ==
    IF lim < 0 THEN rows ELSE SubSeq(rows, 1, Min(lim, Len(rows)))

\* dict(row) with topics parsed from its JSON text.
RowDicts(rows) == [i \in 1..Len(rows) |-> [rows[i] EXCEPT !.topics = JsonLoads(rows[i].topics)]]

\* The lists the query can give under the clause.
ListOutcomes(db, language, clause, preset, since, lim) ==
    IF clause.raised # None
    THEN {[value |-> None, raised |-> clause.raised]}
    ELSE {[value |-> RowDicts(SqlLimit(o, lim)), raised |-> None] :
             o \in OrderByFirstSeenDesc(SelectDistinct(db, language, clause, preset, since))}

\* list_repos: every list it can return, or the exception it raises.
list_repos(db, language, stars, preset, since, lim) ==
    ListOutcomes(db, language, StarsClause(stars), preset, since, lim)

\* MIN(first_seen) and MAX(first_seen): NULL on an empty table.
MinFirstSeen(rs) ==
    IF Len(rs) = 0 THEN None
    ELSE rs[CHOOSE i \in 1..Len(rs) :
               \A j \in 1..Len(rs) : StrLE(rs[i].first_seen, rs[j].first_seen)].first_seen
MaxFirstSeen(rs) ==
    IF Len(rs) = 0 THEN None
    ELSE rs[CHOOSE i \in 1..Len(rs) :
               \A j \in 1..Len(rs) : StrGE(rs[i].first_seen, rs[j].first_seen)].first_seen

\* SELECT language, COUNT(*) ... WHERE language IS NOT NULL GROUP BY language
LanguageCounts(rs) ==
    {[language |-> l, count |-> Cardinality({i \in 1..Len(rs) : rs[i].language = l})] :
        l \in {rs[i].language : i \in {k \in 1..Len(rs) : rs[k].language # None}}}

\* ORDER BY count DESC LIMIT 5: the order of languages with equal counts is open.
TopLanguages(rs) ==
    {SubSeq(o, 1, Min(5, Len(o))) :
        o \in {x \in [1..Cardinality(LanguageCounts(rs)) -> LanguageCounts(rs)] :
                  /\ \A i, j \in 1..Len(x) : x[i] = x[j] => i = j
                  /\ \A i, j \in 1..Len(x) : i < j => x[i].count >= x[j].count}}

\* get_db_stats; db_size, the size of the file, is no function of the rows and
\* is left out.
get_db_stats(db) ==
    {[total_repos |-> Len(db.repos),
      total_scans |-> Len(db.scans),
      oldest_first_seen |-> MinFirstSeen(db.repos),
      newest_first_seen |-> MaxFirstSeen(db.repos),
      top_languages |-> t] : t \in TopLanguages(db.repos)}

\* The mutation of vacuum_db that rebuilds the file without the scan history.
vacuum_dbDroppingScans(db) == [db EXCEPT !.scans = <<>>]
\* vacuum_db: VACUUM rebuilds the file; no row changes.
vacuum_db(db) == db

(***************************************************************************)
(* The store as the listing commands see it: a few scans and digs, then    *)
(* list_repos, get_db_stats and vacuum_db.                                 *)
(***************************************************************************)
SeedItems == {StoreItem("o/a", 2)}
SeedLists == {<<StoreItem("o/a", 1)>>, <<StoreItem("o/b", 2)>>,
              <<StoreItem("o/a", 1), StoreItem("o/b", 2)>>}
SeedPresets == {"ancient", "utopia"}

ListLanguages == {None, "Go"}
ListStars == {None, <<">", "5">>, <<"<", "5", "0">>, <<"5", ".", ".", "5", "0">>,
              <<"5", "0">>, <<">", "=", "5">>}
ListPresets == {"ancient", "utopia"}
ListSince == <<"T", "0", "0", ".", "5">>
ListLimits == {-1, 0, 1, 50}

\* The arguments of list_repos explored: the language and stars filters in every
\* combination, the since filter with some of them, the preset filter with the
\* language filter, and the bare limits.
ListArgs ==
    [language : ListLanguages, stars : ListStars, preset : {None},
     since : {None}, limit : {50}]
      \cup [language : ListLanguages, stars : {None, <<">", "5">>}, preset : {None},
            since : {ListSince}, limit : {50}]
      \cup [language : ListLanguages, stars : {None}, preset : ListPresets,
            since : {None}, limit : {1, 2, 50}]
      \cup [language : {None}, stars : {None}, preset : {None},
            since : {None}, limit : ListLimits]

SeedScan == SaveScanFrom(StoreQueries, SeedPresets, SeedLists)

SeedRepo == SaveRepoFrom(SeedItems)

\* cmd_list: list_repos with the arguments of the command line.
ListRepos ==
    /\ \E a \in ListArgs :
          \E r \in list_repos(Db, a.language, a.stars, a.preset, a.since, a.limit) :
             ret' = [op |-> "list_repos", language |-> a.language, stars |-> a.stars,
                     preset |-> a.preset, since |-> a.since, limit |-> a.limit,
                     value |-> r.value, raised |-> r.raised]
    /\ UNCHANGED <<scans, repos, scan_repos, tags, seq_scans, seq_repos, now>>
    /\ UNCHANGED searchVars
    /\ UNCHANGED cmdVars

\* grave db stats
DbStats ==
    /\ \E v \in get_db_stats(Db) : ret' = [op |-> "get_db_stats", value |-> v]
    /\ UNCHANGED <<scans, repos, scan_repos, tags, seq_scans, seq_repos, now>>
    /\ UNCHANGED searchVars
    /\ UNCHANGED cmdVars

\* grave db vacuum
Vacuum ==
    /\ Commit(vacuum_db(Db))
    /\ ret' = [op |-> "vacuum_db"]
    /\ UNCHANGED now
    /\ UNCHANGED searchVars
    /\ UNCHANGED cmdVars

ListNext ==
    Tick \/ SeedScan \/ SeedRepo \/ ListRepos \/ DbStats \/ Vacuum \/ ClearAll \/ ClearScans

ListSpec == Init /\ [][ListNext]_vars

(***************************************************************************)
(* Properties of list_repos.                                               *)
(***************************************************************************)
\* A list_repos call has returned a list.
Listed == ret.op = "list_repos" /\ ret.raised = None

\* The row of repos as list_repos hands it out.
AsListed(row) == [row EXCEPT !.topics = JsonLoads(row.topics)]
ListedRows == {ret.value[k] : k \in 1..Len(ret.value)}

\* What the stars texts drawn mean for a star count v.
StarsMeans(stars, v) ==
    CASE stars = None -> TRUE
      [] stars = <<">", "5">> -> v > 5
      [] stars = <<"<", "5", "0">> -> v < 50
      [] stars = <<"5", ".", ".", "5", "0">> -> 5 <= v /\ v <= 50
      [] stars = <<"5", "0">> -> v = 50

\* Row i of repos is linked to a scan whose preset_name is p.
LinkedToPreset(i, p) ==
    \E j \in 1..Len(scan_repos) : \E k \in 1..Len(scans) :
        /\ scan_repos[j].repo_id = repos[i].id
        /\ scan_repos[j].scan_id = scans[k].id
        /\ scans[k].preset_name = p

\* Row i of repos satisfies every predicate the call supplied.
SatisfiesAll(i) ==
    /\ ret.language # None => repos[i].language = ret.language
    /\ StarsMeans(ret.stars, repos[i].stargazers_count)
    /\ ret.since # None => StrLE(ret.since, repos[i].first_seen)
    /\ ret.preset # None => LinkedToPreset(i, ret.preset)

Satisfying == {i \in 1..Len(repos) : SatisfiesAll(i)}

\* The limit cut the list: it is as long as the limit allows.
CutByLimit == ret.limit >= 0 /\ Len(ret.value) = ret.limit

\* C11: list_repos returns only rows that satisfy the conjunction of the
\* predicates supplied (language equal; stars '>N' greater, '<N' less, 'N..M'
\* within both ends, 'N' equal; first_seen >= since as strings), and a row that
\* satisfies them all is left out only when the limit cut the list.
C11_FiltersConjoined ==
    Listed =>
        /\ \A x \in ListedRows : \E i \in Satisfying : x = AsListed(repos[i])
        /\ (\E i \in Satisfying : AsListed(repos[i]) \notin ListedRows) => CutByLimit

\* C11 witness: a listing by language and stars that kept one of two stored rows.
C11_Witness ==
    /\ Listed
    /\ ret.language = "Go"
    /\ ret.stars # None
    /\ ret.stars = <<"<", "5", "0">>
    /\ Len(repos) = 2
    /\ Len(ret.value) = 1

\* The list is ordered by first_seen, latest first.
FirstSeenDescending ==
    \A i, j \in 1..Len(ret.value) :
        i < j => StrLE(ret.value[j].first_seen, ret.value[i].first_seen)

NoFilter ==
    ret.language = None /\ ret.stars = None /\ ret.preset = None /\ ret.since = None

\* The list is the ret.limit rows of repos with the greatest first_seen.
LatestOfAll ==
    /\ Len(ret.value) = Min(ret.limit, Len(repos))
    /\ \A i, j \in 1..Len(ret.value) : ret.value[i] = ret.value[j] => i = j
    /\ \A x \in ListedRows : \E i \in 1..Len(repos) : x = AsListed(repos[i])
    /\ \A i \in 1..Len(repos) :
           AsListed(repos[i]) \notin ListedRows =>
               \A x \in ListedRows : StrLE(repos[i].first_seen, x.first_seen)

\* C12 as stated: the list is ordered by first_seen descending and has at most
\* limit rows; without a filter it is the limit rows with the greatest
\* first_seen of all stored rows.
C12_OrderedAndCapped ==
    Listed =>
        /\ FirstSeenDescending
        /\ Len(ret.value) <= ret.limit
        /\ NoFilter => LatestOfAll

\* C12 amended: the same; the cap and the choice of the rows for limit >= 0.
C12_OrderedAndCappedFromZero ==
    Listed =>
        /\ FirstSeenDescending
        /\ ret.limit >= 0 =>
               /\ Len(ret.value) <= ret.limit
               /\ NoFilter => LatestOfAll

\* C12 witness: an unfiltered listing with limit 1 returned the later first
\* seen of two rows although the other was seen as late.
C12_Witness ==
    /\ Listed
    /\ NoFilter
    /\ ret.limit = 1
    /\ Len(ret.value) = 1
    /\ \E i \in 1..Len(repos) :
          /\ repos[i].first_seen # ret.value[1].first_seen
          /\ repos[i].last_seen = ret.value[1].last_seen

\* C13: with a preset given, list_repos returns each row of repos that a row of
\* scan_repos links to a scan of that preset_name (and that passes the other
\* filters) once, and no other row; only the limit leaves such a row out.
C13_PresetThroughLinks ==
    (Listed /\ ret.preset # None) =>
        /\ \A x \in ListedRows :
               \E i \in 1..Len(repos) :
                   x = AsListed(repos[i]) /\ LinkedToPreset(i, ret.preset)
        /\ \A i, j \in 1..Len(ret.value) : ret.value[i] = ret.value[j] => i = j
        /\ (\E i \in Satisfying : AsListed(repos[i]) \notin ListedRows) => CutByLimit

\* C13 witness: a repository linked to a scan of each of two presets is listed
\* for the second preset.
C13_Witness ==
    /\ Listed
    /\ ret.preset = "utopia"
    /\ Len(ret.value) = 1
    /\ \E i \in 1..Len(repos) :
          /\ ret.value[1] = AsListed(repos[i])
          /\ LinkedToPreset(i, "ancient")
          /\ LinkedToPreset(i, "utopia")

ClearStep == now' = now /\ ret'.op \in {"clear_all", "clear_scans"}

\* C19: a row of scans stays, with every field as written, across every step
\* that is not a clear_all or a clear_scans: a save_scan, a save_repo, a
\* list_repos, a get_db_stats, a vacuum_db.
C19_ScanRowsStay ==
    [][~ClearStep =>
           /\ Len(scans') >= Len(scans)
           /\ \A i \in 1..Len(scans) : scans'[i] = scans[i]
      ]_vars

\* C19 witness: the row of the first scan is there, as written, after a later
\* scan and a vacuum_db.
C19_Witness ==
    /\ ret.op = "vacuum_db"
    /\ Len(scans) = 2
    /\ scans[1].id = 1
    /\ scans[1].timestamp = IsoFormat(0)
    /\ scans[2].timestamp = IsoFormat(1)
    /\ scans[1].result_count = 1

\* A list_repos call with the stars filter '>=5'.
AtLeastFive == ret.op = "list_repos" /\ ret.stars # None /\ ret.stars = <<">", "=", "5">>

\* C29: list_repos with the stars filter '>=N' does not raise and returns the
\* rows with stargazers_count >= N (that pass the other filters), the rows
\* with exactly N stars among them.
C29_AtLeastAccepted ==
    AtLeastFive =>
        IF ret.raised # None THEN FALSE
        ELSE {ret.value[k].full_name : k \in 1..Len(ret.value)}
                 = {repos[i].full_name :
                        i \in {j \in 1..Len(repos) :
                                   /\ repos[j].stargazers_count >= 5
                                   /\ ret.language # None => repos[j].language = ret.language}}

\* The scans with the preset_name p that row i of repos is linked to.
ScansLinking(i, p) ==
    {k \in 1..Len(scans) :
        /\ scans[k].preset_name = p
        /\ \E j \in 1..Len(scan_repos) :
               scan_repos[j].repo_id = repos[i].id /\ scan_repos[j].scan_id = scans[k].id}

\* C30: list_repos returns no repository twice, however many scans of the
\* preset asked for it is linked to, and the limit is a limit on the
\* repositories: the list has min(limit, number of repositories that pass the
\* filters) rows.
C30_EachRepositoryOnce ==
    Listed =>
        /\ \A i, j \in 1..Len(ret.value) :
               ret.value[i].full_name = ret.value[j].full_name => i = j
        /\ ret.limit >= 0 =>
               Len(ret.value) = Min(ret.limit, Cardinality(Satisfying))

\* C30 witness: of two repositories of the preset, one linked to two of its
\* scans, a listing with limit 2 has both, each once.
C30_Witness ==
    /\ Listed
    /\ ret.preset = "ancient"
    /\ ret.limit = 2
    /\ Len(ret.value) = 2
    /\ ret.value[1].full_name # ret.value[2].full_name
    /\ \E i \in 1..Len(repos) : Cardinality(ScansLinking(i, "ancient")) = 2
    /\ Len(scan_repos) = 3

(***************************************************************************)
(* The scan command (cli.py cmd_scan): the query from the command line,    *)
(* search_repos, the save to the store, the display.                       *)
(***************************************************************************)
\* Two of the presets of presets.py; neither has keywords.
PresetAncient ==
    [name |-> "ancient", keywords |-> <<>>,
     created_range |-> <<"2", "0", "0", "8", "-", "0", "1", "-", "0", "1", ".", ".", "2", "0", "1", "0", "-", "1", "2", "-", "3", "1">>,
     language |-> None, stars_range |-> <<">", "=", "1">>, pushed |-> None]
PresetAbandoned10y ==
    [name |-> "abandoned-10y", keywords |-> <<>>,
     created_range |-> <<"2", "0", "0", "8", "-", "0", "1", "-", "0", "1", ".", ".", "2", "0", "1", "6", "-", "1", "2", "-", "3", "1">>,
     language |-> None, stars_range |-> None,
     pushed |-> <<"<", "2", "0", "1", "6", "-", "0", "1", "-", "0", "1">>]
PRESETS == <<PresetAncient, PresetAbandoned10y>>

\* get_preset: the first preset of that name as a one-element sequence, or the
\* empty sequence for None.
get_preset(name) ==
    IF \E i \in 1..Len(PRESETS) : PRESETS[i].name = name
    THEN <<PRESETS[CHOOSE i \in 1..Len(PRESETS) :
                      /\ PRESETS[i].name = name
                      /\ \A j \in 1..(i - 1) : PRESETS[j].name # name]>>
    ELSE <<>>

\* Preset.build_query
PresetBuildQuery(preset) ==
    build_search_query(IF Len(preset.keywords) > 0 THEN preset.keywords ELSE None,
                       preset.created_range, preset.language,
                       preset.stars_range, preset.pushed)

\* cmd_scan, preset mode: the query, rebuilt when --language or --stars is given.
PresetScanQuery(preset, a) ==
    IF Truthy(a.language) \/ Truthy(a.stars)
    THEN build_search_query(IF Len(preset.keywords) > 0 THEN preset.keywords ELSE None,
                            preset.created_range,
                            IF Truthy(a.language) THEN a.language ELSE preset.language,
                            IF Truthy(a.stars) THEN a.stars ELSE preset.stars_range,
                            None)
    ELSE PresetBuildQuery(preset)

\* cmd_scan, custom mode: any([...]) over the search parameters.  The flags
\* --era, --abandoned and --dead-since are not drawn.
HasSearchParameter(a) ==
    \/ Truthy(a.keyword)
    \/ Truthy(a.created)
    \/ Truthy(a.pushed)
    \/ Truthy(a.language)
    \/ Truthy(a.stars)

\* cmd_scan, custom mode: the query.
CustomScanQuery(a) ==
    build_search_query(a.keyword, a.created, a.language, a.stars, a.pushed)

\* The command lines of `grave scan` explored.
ScanArgs ==
    [command : {"scan"}, preset : {None}, keyword : {None, <<<<"a">>>>, <<<<"a">>, <<"b">>>>},
     created : {None}, pushed : {None}, language : Languages, stars : {None},
     sort : {"stars"}, limit : {2, 30}, json : BOOLEAN]
      \cup [command : {"scan"}, preset : {"ancient", "abandoned-10y", "nosuch"},
            keyword : {None}, created : {None}, pushed : {None}, language : Languages,
            stars : {None}, sort : {"stars"}, limit : {30}, json : BOOLEAN]

Stderr(text) == [stream |-> "stderr", text |-> text]
Stdout(json, items) ==
    [stream |-> "stdout", format |-> IF json THEN "json" ELSE "table", items |-> items]

\* The search state is left as it is.
NoSearch == UNCHANGED <<pc, query, limit, sort, gh_present, base_cmd, keywords, per_kw_limit>>

\* sys.exit(code) after a message on stderr.
ExitWith(text, code) ==
    /\ output' = Append(output, Stderr(text))
    /\ exit_code' = <<code>>
    /\ NoSearch

\* cmd_scan up to the call of search_repos: the check of the gh login, the
\* query of the preset or of the custom parameters.  Preset mode passes no sort.
CmdScanStart ==
    /\ pc = "idle"
    /\ exit_code = <<>>
    /\ args = NoArgs
    /\ \E a \in ScanArgs, auth \in BOOLEAN :
          /\ args' = a
          /\ IF ~auth
             THEN ExitWith("grave: error: GitHub authentication required", 1)
             ELSE IF TruthyStr(a.preset)
                  THEN IF get_preset(a.preset) = <<>>
                       THEN ExitWith("grave: error: preset not found", 1)
                       ELSE /\ EnterSearch(PresetScanQuery(get_preset(a.preset)[1], a),
                                           a.limit, None, TRUE)
                            /\ UNCHANGED <<output, exit_code>>
                  ELSE IF ~HasSearchParameter(a)
                       THEN ExitWith("grave: error: at least one search parameter is required", 2)
                       ELSE /\ EnterSearch(CustomScanQuery(a), a.limit, a.sort, TRUE)
                            /\ UNCHANGED <<output, exit_code>>
    /\ UNCHANGED <<seen, merged, calls, responses, result>>
    /\ UNCHANGED storeVars
    /\ UNCHANGED built

\* What can go wrong in the store besides what save_scan itself raises: init_db
\* or a statement of save_scan fails (no directory, a locked or full database).
StoreFaults == {None, "init_db", "save_scan"}

\* The record of a save_scan call.
ScanCall(q, preset_name, items, timestamp, value, raised) ==
    [op |-> "save_scan", query |-> q, preset_name |-> preset_name, items |-> items,
     timestamp |-> timestamp, value |-> value, raised |-> raised]

\* What save_scan left and gave, as cmd_scan sees it.
Persisted(r, q, preset_name, items, timestamp) ==
    [db |-> r.db, raised |-> r.raised,
     ret |-> ScanCall(q, preset_name, items, timestamp, r.value, r.raised)]

\* conn = db.init_db(); db.save_scan(conn, query, preset_name, items): the
\* database left, the call recorded and the exception raised, if any.
ScanPersist(db, fault, q, preset_name, items, timestamp) ==
    IF fault = "init_db"
    THEN [db |-> db, raised |-> "OperationalError",
          ret |-> [op |-> "init_db", raised |-> "OperationalError"]]
    ELSE IF fault = "save_scan"
         THEN [db |-> db, raised |-> "OperationalError",
               ret |-> ScanCall(q, preset_name, items, timestamp, None, "OperationalError")]
         ELSE Persisted(save_scan(db, q, preset_name, items, timestamp),
                        q, preset_name, items, timestamp)

\* The mutation of AfterPersist in which a failed save ends the command.
AbortOnSaveFailure(out, raised, json, items) ==
    IF raised # None
    THEN [output |-> Append(out, Stderr("grave: error")), exit_code |-> <<1>>]
    ELSE [output |-> Append(out, Stdout(json, items)), exit_code |-> <<0>>]
\* cmd_scan after the save: an exception of the save is caught and reported as
\* a warning; the items are displayed and the command returns.
AfterPersist(out, raised, json, items) ==
    [output |-> Append(IF raised # None
                       THEN Append(out, Stderr("grave: warning: failed to save scan to database"))
                       ELSE out,
                       Stdout(json, items)),
     exit_code |-> <<0>>]

\* The end of the command after the save.
Finish(r, json, items) ==
    /\ Commit(r.db)
    /\ ret' = r.ret
    /\ \E f \in {AfterPersist(output, r.raised, json, items)} :
          /\ output' = f.output
          /\ exit_code' = f.exit_code

\* The mutation of CmdScanFinish that records a failed search as a scan without items.
CmdScanFinishRecordingFailure ==
    /\ pc = "done"
    /\ exit_code = <<>>
    /\ args # NoArgs
    /\ Finish(ScanPersist(Db, None, query,
                          IF TruthyStr(args.preset) THEN args.preset ELSE None,
                          IF result.kind = "error" THEN <<>> ELSE result.items,
                          IsoFormat(now)),
              args.json, IF result.kind = "error" THEN <<>> ELSE result.items)
    /\ UNCHANGED now
    /\ UNCHANGED searchVars
    /\ UNCHANGED <<args, built>>

\* cmd_scan after search_repos: a RuntimeError of the search, already printed,
\* exits with 1; otherwise the scan is saved and the items are displayed.
CmdScanFinish ==
    /\ pc = "done"
    /\ exit_code = <<>>
    /\ args # NoArgs
    /\ IF result.kind = "error"
       THEN /\ output' = Append(output, Stderr(result.error))
            /\ exit_code' = <<1>>
            /\ UNCHANGED storeVars
       ELSE /\ \E fault \in StoreFaults :
                  Finish(ScanPersist(Db, fault, query,
                                     IF TruthyStr(args.preset) THEN args.preset ELSE None,
                                     result.items, IsoFormat(now)),
                         args.json, result.items)
            /\ UNCHANGED now
    /\ UNCHANGED searchVars
    /\ UNCHANGED <<args, built>>

ScanNext == CmdScanStart \/ KeywordCall \/ MultiReturn \/ SingleCall \/ CmdScanFinish

ScanSpec == Init /\ [][ScanNext]_vars

\* C14: when init_db or save_scan raises in the scan command, the command does
\* not abort: it exits with 0 and has printed the items the search returned,
\* after a warning on stderr.
C14_StoreFailureIsSoft ==
    (exit_code # <<>> /\ pc = "done" /\ result.kind = "items" /\ ret.op # "none"
     /\ ret.raised # None)
        => /\ exit_code = <<0>>
           /\ \E i, j \in 1..Len(output) :
                  /\ i < j
                  /\ output[i].stream = "stderr"
                  /\ output[j].stream = "stdout"
                  /\ output[j].items = result.items

\* C14 witness: a multi-keyword scan whose save raised has displayed the items
\* found.
C14_Witness ==
    /\ exit_code = <<0>>
    /\ MultiDone
    /\ result.kind = "items"
    /\ Len(result.items) = 2
    /\ ret.op = "save_scan"
    /\ ret.raised # None
    /\ output[Len(output)].stream = "stdout"
    /\ output[Len(output)].items = result.items
    /\ scans = <<>>

\* C26: when search_repos raises in the scan command, the command writes
\* nothing to the store: scans, repos, scan_repos and tags stay as they were;
\* a row of scans is there only when the search returned a list.
C26_FailedSearchWritesNothing ==
    /\ [](Len(scans) >= 1 => (pc = "done" /\ result.kind = "items"))
    /\ [][(pc' = "done" /\ result'.kind = "error") =>
              /\ scans' = scans
              /\ repos' = repos
              /\ scan_repos' = scan_repos
              /\ tags' = tags
              /\ ret' = ret
         ]_vars

\* C26 witness: the scan command has ended with exit code 1 after its one gh
\* call exited non-zero, and the store is empty and no store call was made.
C26_Witness ==
    /\ args # NoArgs
    /\ exit_code = <<1>>
    /\ pc = "done"
    /\ Len(responses) = 1
    /\ responses[1].kind = "exit"
    /\ result.kind = "error"
    /\ ret.op = "none"
    /\ scans = <<>>
    /\ repos = <<>>
    /\ scan_repos = <<>>

(***************************************************************************)
(* build_search_query as a function of its arguments.                      *)
(***************************************************************************)
\* The arguments explored: a field is None, the empty string or a value; a
\* keyword may hold a blank.
BuildKeywords == {None, <<>>, <<<<"a">>>>, <<<<"a">>, <<"b">>>>, <<<<"b">>, <<"a">>>>,
                  <<<<"a">>, <<"a">>>>, <<<<"a", " ", "b">>, <<"b">>>>}
BuildCreated == {None, <<>>, <<"2", "0", "0", "8">>}
BuildLanguages == {None, <<>>, <<"G", "o">>}
BuildStars == {None, <<>>, <<">", "1">>}
BuildPushed == {None, <<>>, <<"<", "2", "0", "1", "5">>}

\* A call of build_search_query.
BuildQuery ==
    /\ \E kws \in BuildKeywords, c \in BuildCreated, l \in BuildLanguages,
          s \in BuildStars, p \in BuildPushed :
          built' = [op |-> "build_search_query", keywords |-> kws, created_range |-> c,
                    language |-> l, stars_range |-> s, pushed |-> p,
                    value |-> build_search_query(kws, c, l, s, p)]
    /\ UNCHANGED <<args, output, exit_code>>
    /\ UNCHANGED searchVars
    /\ UNCHANGED storeVars

\* The start of search_repos on the string just built: the keywords and the
\* flags it takes from the query.
ParseQuery ==
    /\ built.op = "build_search_query"
    /\ built' = [op |-> "search_repos", keywords |-> built.keywords, query |-> built.value,
                 value |-> ParseKeywords(Split(built.value)),
                 base_cmd |-> ParseFlags(Split(built.value))]
    /\ UNCHANGED <<args, output, exit_code>>
    /\ UNCHANGED searchVars
    /\ UNCHANGED storeVars

BuildNext == BuildQuery \/ ParseQuery

BuildSpec == Init /\ [][BuildNext]_vars

RECURSIVE Spaced(_)
\* The tokens with one blank between each two.
Spaced(tokens) ==
    IF Len(tokens) = 0 THEN <<>>
    ELSE IF Len(tokens) = 1 THEN tokens[1]
    ELSE Spaced(SubSeq(tokens, 1, Len(tokens) - 1)) \o <<" ">> \o tokens[Len(tokens)]

\* The token name:value of a field that is present, nothing for an absent one.
Token(name, value) ==
    IF value = None THEN <<>>
    ELSE IF value = <<>> THEN <<>>
    ELSE <<name \o <<":">> \o value>>

\* C15: the string build_search_query returns is the keywords in the order
\* given, then the tokens created:, language:, stars:, pushed: of the fields
\* present, in that order, with a single blank between each two; an absent
\* field gives no token.
C15_QueryLayout ==
    built.op = "build_search_query" =>
        built.value =
            Spaced((IF built.keywords = None THEN <<>> ELSE built.keywords)
                   \o Token(<<"c", "r", "e", "a", "t", "e", "d">>, built.created_range)
                   \o Token(<<"l", "a", "n", "g", "u", "a", "g", "e">>, built.language)
                   \o Token(<<"s", "t", "a", "r", "s">>, built.stars_range)
                   \o Token(<<"p", "u", "s", "h", "e", "d">>, built.pushed))

\* C15 witness: two keywords, no created range, a language, a star range and a
\* pushed filter gave "b a language:Go stars:>1 pushed:<2015".
C15_Witness ==
    /\ built.op = "build_search_query"
    /\ built.created_range = None
    /\ built.value = <<"b", " ", "a", " ", "l", "a", "n", "g", "u", "a", "g", "e", ":", "G", "o",
                       " ", "s", "t", "a", "r", "s", ":", ">", "1",
                       " ", "p", "u", "s", "h", "e", "d", ":", "<", "2", "0", "1", "5">>

\* C24: the keywords search_repos takes from the string build_search_query
\* made of the keywords K are K: the same strings in the same order.
C24_KeywordsRoundTrip ==
    built.op = "search_repos" =>
        built.value = (IF built.keywords = None THEN <<>> ELSE built.keywords)

\* The scan command is past the query of a preset that exists.
PresetQueried ==
    /\ args # NoArgs
    /\ pc # "idle"
    /\ TruthyStr(args.preset)
    /\ get_preset(args.preset) # <<>>

\* C28: in preset mode the query of the scan command is the preset's query
\* with the language of --language and the stars of --stars in the place of
\* the preset's, where given: the keywords, the created range and the pushed
\* filter of the preset are in it.
C28_OverrideKeepsPreset ==
    PresetQueried =>
        \E preset \in {get_preset(args.preset)[1]} :
            query = Spaced(preset.keywords
                           \o Token(<<"c", "r", "e", "a", "t", "e", "d">>, preset.created_range)
                           \o Token(<<"l", "a", "n", "g", "u", "a", "g", "e">>,
                                    IF Truthy(args.language) THEN args.language
                                    ELSE preset.language)
                           \o Token(<<"s", "t", "a", "r", "s">>,
                                    IF Truthy(args.stars) THEN args.stars
                                    ELSE preset.stars_range)
                           \o Token(<<"p", "u", "s", "h", "e", "d">>, preset.pushed))

====
